---- MODULE Spec2Model ----
(***************************************************************************)
(* A model of gluish's artefact addressing layer:                         *)
(*   - gluish/task.py    BaseTask.path and nearest                         *)
(*   - gluish/common.py  SplitFile and Executable                          *)
(* Python byte strings are sequences of one-character strings, so that     *)
(* formatting, sorting, joining, hashing and line splitting are computed   *)
(* character by character, as the code computes them.                      *)
(***************************************************************************)
EXTENDS Integers, Sequences, FiniteSets, TLC

VARIABLES
    \* --- BaseTask.path, called on two task instances -------------------
    inst,       \* inst[i]: the i-th task instance
    args,       \* the keyword arguments of the path() calls
    ret,        \* ret[i]: what inst[i].path(**args) returned or raised
    \* --- SplitFile, run by two workers over one file system ------------
    fs,         \* regular files: path -> content
    dirs,       \* directories
    task,       \* task[w]: the SplitFile instance worker w was given
    pc,         \* pc[w]: where worker w is
    loc,        \* loc[w]: the local variables of run()
    made,       \* made[w]: the chunk files worker w's split created
    attempts,   \* attempts[w]: scheduling attempts made so far
    \* --- Executable ------------------------------------------------------
    PATH,       \* the names found on the executable search path
    exe,        \* the Executable instance
    outcome,    \* what the last call on exe returned or raised
    calls       \* number of calls made on exe

pathVars == <<inst, args, ret>>
splitVars == <<fs, dirs, task, pc, loc, made, attempts>>
execVars == <<PATH, exe, outcome, calls>>
vars == <<inst, args, ret, fs, dirs, task, pc, loc, made, attempts,
          PATH, exe, outcome, calls>>

(***************************************************************************)
(* Byte strings                                                            *)
(***************************************************************************)
NL == "\n"

\* the printable ASCII characters 32..95 and 97..126, in code order
Printable32 ==
    <<" ", "!", "\"", "#", "$", "%", "&", "'", "(", ")", "*", "+", ",", "-", ".", "/",
      "0", "1", "2", "3", "4", "5", "6", "7", "8", "9", ":", ";", "<", "=", ">", "?",
      "@", "A", "B", "C", "D", "E", "F", "G", "H", "I", "J", "K", "L", "M", "N", "O",
      "P", "Q", "R", "S", "T", "U", "V", "W", "X", "Y", "Z", "[", "\\", "]", "^", "_">>
Printable97 ==
    <<"a", "b", "c", "d", "e", "f", "g", "h", "i", "j", "k", "l", "m", "n", "o",
      "p", "q", "r", "s", "t", "u", "v", "w", "x", "y", "z", "{", "|", "}", "~">>

\* ord(c) for the characters the model uses
Ord ==
    [c \in {Printable32[i] : i \in 1..Len(Printable32)}
            \cup {Printable97[i] : i \in 1..Len(Printable97)} \cup {NL} |->
        IF c = NL THEN 10
        ELSE IF \E i \in 1..Len(Printable32) : Printable32[i] = c
             THEN 31 + (CHOOSE i \in 1..Len(Printable32) : Printable32[i] = c)
             ELSE 96 + (CHOOSE i \in 1..Len(Printable97) : Printable97[i] = c)]

\* a < b for byte strings (Python 2 str comparison)
RECURSIVE StrLess(_, _)
StrLess(a, b) ==
    IF Len(b) = 0 THEN FALSE
    ELSE IF Len(a) = 0 THEN TRUE
    ELSE IF a[1] = b[1] THEN StrLess(Tail(a), Tail(b))
    ELSE Ord[a[1]] < Ord[b[1]]

\* the strings of S in ascending order
RECURSIVE Ascending(_)
Ascending(S) ==
    IF S = {} THEN <<>>
    ELSE LET m == CHOOSE x \in S : \A y \in S \ {x} : StrLess(x, y)
         IN  <<m>> \o Ascending(S \ {m})

\* s.startswith(p)
startswith(s, p) == Len(p) <= Len(s) /\ SubSeq(s, 1, Len(p)) = p

\* sorted(xs) for a list of byte strings (stable insertion sort)
RECURSIVE Insert(_, _)
Insert(x, ys) ==
    IF Len(ys) = 0 THEN <<x>>
    ELSE IF StrLess(x, ys[1]) THEN <<x>> \o ys
    ELSE <<ys[1]>> \o Insert(x, Tail(ys))

\* the parts joined in dict iteration order, the sort left out
unsorted(xs) == xs

RECURSIVE sorted(_)
sorted(xs) == IF Len(xs) = 0 THEN <<>> ELSE Insert(xs[Len(xs)], sorted(SubSeq(xs, 1, Len(xs) - 1)))

\* sep.join(xs)
RECURSIVE join(_, _)
join(sep, xs) ==
    IF Len(xs) = 0 THEN <<>>
    ELSE IF Len(xs) = 1 THEN xs[1]
    ELSE xs[1] \o sep \o join(sep, Tail(xs))

Digits == <<"0", "1", "2", "3", "4", "5", "6", "7", "8", "9">>

RECURSIVE Decimal(_)
Decimal(n) == IF n < 10 THEN <<Digits[n + 1]>> ELSE Decimal(n \div 10) \o <<Digits[(n % 10) + 1]>>

\* str(n) for an int
str_int(n) == IF n < 0 THEN <<"-">> \o Decimal(0 - n) ELSE Decimal(n)

\* n printed with leading zeros to width w
RECURSIVE ZeroPad(_, _)
ZeroPad(s, w) == IF Len(s) >= w THEN s ELSE ZeroPad(<<"0">> \o s, w)

\* str(d) for a datetime.date <<year, month, day>>
str_date(d) ==
    ZeroPad(Decimal(d[1]), 4) \o <<"-">> \o ZeroPad(Decimal(d[2]), 2) \o <<"-">> \o ZeroPad(Decimal(d[3]), 2)

\* Python values that reach format(): a str or a datetime.date, tagged
Str(s) == <<"str", s>>
PyInt(n) == <<"int", n>>
Date(y, m, d) == <<"date", y, m, d>>
format(v) ==
    IF v[1] = "str" THEN v[2]
    ELSE IF v[1] = "int" THEN str_int(v[2])
    ELSE str_date(<<v[2], v[3], v[4]>>)

(***************************************************************************)
(* hashlib.sha1(name).hexdigest(): SHA-1 over 32-bit words, each kept as   *)
(* <<high 16 bits, low 16 bits>>.                                          *)
(***************************************************************************)
RECURSIVE AndBits(_, _, _)
AndBits(a, b, n) ==
    IF n = 0 THEN 0 ELSE ((a % 2) * (b % 2)) + 2 * AndBits(a \div 2, b \div 2, n - 1)

AndByte == [a \in 0..255 |-> [b \in 0..255 |-> AndBits(a, b, 8)]]
And16(a, b) == AndByte[a \div 256][b \div 256] * 256 + AndByte[a % 256][b % 256]
Xor16(a, b) == a + b - 2 * And16(a, b)
Or16(a, b) == a + b - And16(a, b)

WXor(p, q) == <<Xor16(p[1], q[1]), Xor16(p[2], q[2])>>
WAnd(p, q) == <<And16(p[1], q[1]), And16(p[2], q[2])>>
WOr(p, q) == <<Or16(p[1], q[1]), Or16(p[2], q[2])>>
WNot(p) == <<65535 - p[1], 65535 - p[2]>>
WAdd(p, q) ==
    <<(p[1] + q[1] + ((p[2] + q[2]) \div 65536)) % 65536, (p[2] + q[2]) % 65536>>
Rotl(p, n) ==
    LET q == IF n >= 16 THEN <<p[2], p[1]>> ELSE p
        k == n % 16
    IN  IF k = 0 THEN q
        ELSE <<((q[1] * 2^k) % 65536) + (q[2] \div 2^(16 - k)),
               ((q[2] * 2^k) % 65536) + (q[1] \div 2^(16 - k))>>

RECURSIVE Zeros(_)
Zeros(n) == IF n = 0 THEN <<>> ELSE <<0>> \o Zeros(n - 1)

\* the message as bytes, padded to a multiple of 64 bytes
ShaPad(m) ==
    LET bits == Len(m) * 8
    IN  [i \in 1..Len(m) |-> Ord[m[i]]] \o <<128>> \o Zeros((119 - Len(m)) % 64)
          \o <<0, 0, 0, 0, (bits \div 16777216) % 256, (bits \div 65536) % 256,
               (bits \div 256) % 256, bits % 256>>

ShaWords(b) ==
    [i \in 1..16 |-> <<b[4*i - 3] * 256 + b[4*i - 2], b[4*i - 1] * 256 + b[4*i]>>]

RECURSIVE ShaSchedule(_)
ShaSchedule(w) ==
    IF Len(w) = 80 THEN w
    ELSE LET t == Len(w) + 1
         IN  ShaSchedule(Append(w,
                Rotl(WXor(WXor(w[t - 3], w[t - 8]), WXor(w[t - 14], w[t - 16])), 1)))

ShaF(t, b, c, d) ==
    IF t <= 20 THEN WOr(WAnd(b, c), WAnd(WNot(b), d))
    ELSE IF t <= 40 THEN WXor(WXor(b, c), d)
    ELSE IF t <= 60 THEN WOr(WOr(WAnd(b, c), WAnd(b, d)), WAnd(c, d))
    ELSE WXor(WXor(b, c), d)

ShaK(t) ==
    IF t <= 20 THEN <<23170, 31129>>
    ELSE IF t <= 40 THEN <<28377, 60321>>
    ELSE IF t <= 60 THEN <<36635, 48348>>
    ELSE <<51810, 49622>>

ShaStep(s, wt, t) ==
    <<WAdd(WAdd(WAdd(WAdd(Rotl(s[1], 5), ShaF(t, s[2], s[3], s[4])), s[5]), ShaK(t)), wt),
      s[1], Rotl(s[2], 30), s[3], s[4]>>

RECURSIVE ShaRounds(_, _, _)
ShaRounds(s, w, t) ==
    IF Len(s) = 5 /\ t <= 80 THEN ShaRounds(ShaStep(s, w[t], t), w, t + 1) ELSE s

ShaInit ==
    <<<<26437, 8961>>, <<61389, 43913>>, <<39098, 56574>>, <<4146, 21622>>, <<50130, 57840>>>>

RECURSIVE ShaBlocks(_, _)
ShaBlocks(h, p) ==
    IF Len(p) = 0 THEN h
    ELSE LET s == ShaRounds(h, ShaSchedule(ShaWords(SubSeq(p, 1, 64))), 1)
         IN  ShaBlocks([i \in 1..5 |-> WAdd(h[i], s[i])], SubSeq(p, 65, Len(p)))

HexDigits == <<"0", "1", "2", "3", "4", "5", "6", "7", "8", "9", "a", "b", "c", "d", "e", "f">>
Hex16(n) ==
    <<HexDigits[(n \div 4096) + 1], HexDigits[((n \div 256) % 16) + 1],
      HexDigits[((n \div 16) % 16) + 1], HexDigits[(n % 16) + 1]>>

RECURSIVE HexWords(_)
HexWords(h) ==
    IF Len(h) = 0 THEN <<>> ELSE Hex16(h[1][1]) \o Hex16(h[1][2]) \o HexWords(Tail(h))

sha1_hexdigest(name) == HexWords(ShaBlocks(ShaInit, ShaPad(name)))

(***************************************************************************)
(* gluish/task.py                                                          *)
(***************************************************************************)
NotImplemented == <<"NotImplemented">>
None == <<"None">>
RuntimeError_TagBase == <<"RuntimeError: TAG and BASE must be set.">>
AttributeError_Missing == <<"AttributeError: Missing attribute.">>
NotCalled == <<"not called">>
IsError(r) == r \in {RuntimeError_TagBase, AttributeError_Missing}

\* os.path.join(a, *p) of posixpath
RECURSIVE os_path_join(_, _)
os_path_join(a, p) ==
    IF Len(p) = 0 THEN a
    ELSE os_path_join(IF startswith(p[1], <<"/">>) THEN p[1]
                      ELSE IF Len(a) = 0 \/ a[Len(a)] = "/" THEN a \o p[1]
                      ELSE a \o <<"/">> \o p[1],
                      Tail(p))

\* dict access on a list of <<key, value>> items kept in iteration order
HasKey(d, k) == \E i \in 1..Len(d) : d[i][1] = k
GetItem(d, k) == d[CHOOSE i \in 1..Len(d) : d[i][1] = k][2]
SetItem(d, k, v) ==
    IF HasKey(d, k) THEN [i \in 1..Len(d) |-> IF d[i][1] = k THEN <<k, v>> ELSE d[i]]
    ELSE Append(d, <<k, v>>)

\* the docstring's ExampleTask.nearest: the first day of the month of self.date
ExampleTask_nearest(self) ==
    LET date == GetItem(self.kwargs, <<"d", "a", "t", "e">>)
    IN  Date(date[2], date[3], 1)

\* nearest(obj); obj.nearest is absent, a method or a plain attribute
nearest(obj) ==
    IF obj.nearest = "absent" THEN [ok |-> FALSE, val |-> AttributeError_Missing]
    ELSE IF obj.nearest = "method" THEN [ok |-> TRUE, val |-> ExampleTask_nearest(obj)]
    ELSE [ok |-> TRUE, val |-> obj.nearest_value]

\* luigi's id_to_name_and_params(self.task_id): the task family and the
\* parameters as the strings luigi serialised them to
id_to_name_and_params(self) ==
    <<self.family, [i \in 1..Len(self.kwargs) |-> <<self.kwargs[i][1], Str(format(self.kwargs[i][2]))>>]>>

\* the loop over cbmap without its membership test
RECURSIVE apply_cbmap_unguarded(_, _, _)
apply_cbmap_unguarded(self, task_params, cbmap) ==
    IF Len(cbmap) = 0 THEN [ok |-> TRUE, val |-> task_params]
    ELSE LET r == nearest(self)
         IN  IF ~r.ok THEN r
             ELSE apply_cbmap_unguarded(self, SetItem(task_params, cbmap[1][1], r.val), Tail(cbmap))

\* the loop over cbmap: a key that is no parameter is skipped
RECURSIVE apply_cbmap(_, _, _)
apply_cbmap(self, task_params, cbmap) ==
    IF Len(cbmap) = 0 THEN [ok |-> TRUE, val |-> task_params]
    ELSE IF ~HasKey(task_params, cbmap[1][1]) THEN apply_cbmap(self, task_params, Tail(cbmap))
    ELSE LET r == nearest(self)
         IN  IF ~r.ok THEN r
             ELSE apply_cbmap(self, SetItem(task_params, cbmap[1][1], r.val), Tail(cbmap))

\* BaseTask.path(filename, ext, digest, cbmap)
path(self, filename, ext, digest, cbmap) ==
    IF self.TAG = NotImplemented \/ self.BASE = NotImplemented THEN RuntimeError_TagBase
    ELSE LET task_name == id_to_name_and_params(self)[1]
             normalized == apply_cbmap(self, id_to_name_and_params(self)[2],
                                       IF cbmap = None THEN <<>> ELSE cbmap)
         IN  IF filename # None
             THEN os_path_join(self.BASE, <<self.TAG, task_name, filename>>)
             ELSE IF ~normalized.ok THEN normalized.val
             ELSE LET task_params == normalized.val
                      parts == [i \in 1..Len(task_params) |->
                                   task_params[i][1] \o <<"-">> \o format(task_params[i][2])]
                      joined == join(<<"-">>, sorted(parts))
                      name == IF Len(joined) = 0 THEN <<"o", "u", "t", "p", "u", "t">> ELSE joined
                      fn == IF digest THEN sha1_hexdigest(name) ELSE name
                  IN  os_path_join(self.BASE, <<self.TAG, task_name, fn \o <<".">> \o ext>>)

(***************************************************************************)
(* Task instances and call arguments the path() calls are checked on      *)
(***************************************************************************)
MaxMonth == 2

TmpDir == <<"/", "t", "m", "p">>
K_date == <<"d", "a", "t", "e">>
K_kind == <<"k", "i", "n", "d">>
K_prefix == <<"p", "r", "e", "f", "i", "x">>
K_set == <<"s", "e", "t">>
K_other == <<"o", "t", "h", "e", "r">>

Dates == {Date(2020, m, d) : m \in 1..MaxMonth, d \in {5, 20}}

\* every iteration order of a dict with the given items
Orders(items) ==
    {o \in [1..Cardinality(items) -> items] : \A i, j \in 1..Cardinality(items) : i # j => o[i] # o[j]}

Instance(family, base, tag, kwargs, nr) ==
    [family |-> family, BASE |-> base, TAG |-> tag, kwargs |-> kwargs,
     nearest |-> nr, nearest_value |-> Date(2020, 1, 1)]

\* BaseTask itself and a subclass that sets only BASE: not configured
Unconfigured ==
    {Instance(<<"B", "a", "s", "e", "T", "a", "s", "k">>, NotImplemented, NotImplemented, <<>>, "absent"),
     Instance(<<"H", "a", "l", "f">>, TmpDir, NotImplemented, <<>>, "absent")}

\* the tests' TestTask: no parameters
TestTasks == {Instance(<<"T", "e", "s", "t", "T", "a", "s", "k">>, TmpDir, <<"t">>, <<>>, "absent")}

\* the docstring's ExampleTask, with a second parameter
ExampleTasks ==
    {Instance(<<"E", "x", "a", "m", "p", "l", "e", "T", "a", "s", "k">>, TmpDir, <<"t">>, o, "method") :
        o \in UNION {Orders({<<K_date, d>>, <<K_kind, Str(<<"x">>)>>}) : d \in Dates}}

\* a task with a date and a plain nearest attribute, and one with none
AttrTasks ==
    {Instance(<<"A", "t", "t", "r">>, TmpDir, <<"t">>, <<<<K_date, d>>>>, "attribute") : d \in Dates}
BareTasks ==
    {Instance(<<"B", "a", "r", "e">>, TmpDir, <<"t">>, <<<<K_date, d>>>>, "absent") : d \in Dates}

PathTasks == Unconfigured \cup TestTasks \cup ExampleTasks \cup AttrTasks \cup BareTasks

CbMaps ==
    {None,
     <<<<K_date, "nearest">>>>,
     <<<<K_other, "nearest">>>>,
     <<<<K_other, "nearest">>, <<K_date, "nearest">>>>}

\* ext defaults to tsv; the tests also ask for pdf and for a fixed filename
PathArgs ==
    [filename : {None}, ext : {<<"t", "s", "v">>}, digest : BOOLEAN, cbmap : CbMaps]
    \cup [filename : {None}, ext : {<<"p", "d", "f">>}, digest : BOOLEAN, cbmap : {None}]
    \cup [filename : {<<"x", ".", "y">>}, ext : {<<"t", "s", "v">>}, digest : {FALSE}, cbmap : {None}]

\* tasks whose string parameters hold the separator
SepValues ==
    {<<"a">>, <<"c">>, <<"a", "-", "s", "e", "t", "-", "b">>, <<"b", "-", "s", "e", "t", "-", "c">>}
SepTasks ==
    {Instance(<<"H", "a", "r", "v", "e", "s", "t">>, TmpDir, <<"t">>, o, "absent") :
        o \in UNION {Orders({<<K_prefix, Str(p)>>, <<K_set, Str(s)>>}) : p \in SepValues, s \in SepValues}}

SplitIdle ==
    /\ fs = <<>> /\ dirs = {} /\ task = <<>> /\ pc = <<>> /\ loc = <<>> /\ made = <<>>
    /\ attempts = <<>>
PathIdle == inst = <<>> /\ args = <<>> /\ ret = <<>>
ExecIdle == PATH = {} /\ exe = <<>> /\ outcome = <<>> /\ calls = 0

InitPath ==
    /\ inst \in {p \in [1..2 -> PathTasks] : p[1].family = p[2].family}
    /\ args \in PathArgs
    /\ ret = [i \in 1..2 |-> NotCalled]
    /\ SplitIdle /\ ExecIdle

InitNames ==
    /\ inst \in [1..2 -> SepTasks]
    /\ args \in [filename : {None}, ext : {<<"t", "s", "v">>}, digest : {FALSE}, cbmap : {None}]
    /\ ret = [i \in 1..2 |-> NotCalled]
    /\ SplitIdle /\ ExecIdle

\* inst[i].path(filename, ext, digest, cbmap)
CallPath(i) ==
    /\ ret[i] = NotCalled
    /\ ret' = [ret EXCEPT ![i] = path(inst[i], args.filename, args.ext, args.digest, args.cbmap)]
    /\ UNCHANGED <<inst, args, splitVars, execVars>>

NextPath == \E i \in 1..2 : CallPath(i)

SpecPath == InitPath /\ [][NextPath]_vars
SpecNames == InitNames /\ [][NextPath]_vars

(***************************************************************************)
(* gluish/common.py: Executable                                            *)
(***************************************************************************)
MaxCalls == 3

\* gluish.path.which(name): the first directory of the search path that
\* holds an executable called name, or None
which(name) ==
    IF \E i \in 1..Len(PATH) : name \in PATH[i]
    THEN <<CHOOSE i \in 1..Len(PATH) : name \in PATH[i] /\ \A j \in 1..(i - 1) : name \notin PATH[j], name>>
    ELSE None

\* a complete() that never looks at the search path
Executable_complete_always(self) == TRUE

\* Executable.complete()
Executable_complete(self) == which(self.name) # None

\* Executable.run(): the RuntimeError raised
Executable_run(self) ==
    [type |-> "RuntimeError",
     msg |-> <<"E", "x", "t", "e", "r", "n", "a", "l", " ", "a", "p", "p", " ">> \o self.name
             \o <<" ", "r", "e", "q", "u", "i", "r", "e", "d", ".", NL>> \o self.message]

Binaries == {<<"l", "s">>, <<"s", "p", "l", "i", "t">>}
ExeNames == Binaries \cup {<<"v", "e", "r", "y", "u", "n", "l", "i", "k", "e", "l", "y", "1", "2", "3">>}
Messages == {<<>>, <<"a", "p", "t">>}

InitExec ==
    /\ PATH \in [1..2 -> SUBSET Binaries]
    /\ exe \in [name : ExeNames, message : Messages]
    /\ outcome = [op |-> "none", val |-> FALSE]
    /\ calls = 0
    /\ PathIdle /\ SplitIdle

CallComplete ==
    /\ calls < MaxCalls
    /\ outcome' = [op |-> "complete", val |-> Executable_complete(exe)]
    /\ calls' = calls + 1
    /\ UNCHANGED <<PATH, exe, pathVars, splitVars>>

CallRun ==
    /\ calls < MaxCalls
    /\ outcome' = [op |-> "run", val |-> Executable_run(exe)]
    /\ calls' = calls + 1
    /\ UNCHANGED <<PATH, exe, pathVars, splitVars>>

NextExec == CallComplete \/ CallRun

SpecExec == InitExec /\ [][NextExec]_vars

(***************************************************************************)
(* gluish/common.py: SplitFile, run by the workers of a scheduler          *)
(***************************************************************************)
MaxLen == 3
MaxChunks == 2
MaxAttempts == 2

Workers == {1, 2}

\* os.path.basename(p), os.path.dirname(p) of posixpath
LastSlash(p) == IF \E i \in 1..Len(p) : p[i] = "/"
                THEN CHOOSE i \in 1..Len(p) : p[i] = "/" /\ \A j \in (i + 1)..Len(p) : p[j] # "/"
                ELSE 0
basename(p) == SubSeq(p, LastSlash(p) + 1, Len(p))
dirname(p) == IF LastSlash(p) <= 1 THEN SubSeq(p, 1, LastSlash(p)) ELSE SubSeq(p, 1, LastSlash(p) - 1)

\* a directory and the directories above it, as os.makedirs creates them
Ancestors(d) == {SubSeq(d, 1, i) : i \in {j \in 1..Len(d) : j = Len(d) \/ (j > 1 /\ d[j + 1] = "/")}}

\* sum(1 for line in open(filename)): every newline ends a line, and so does
\* the end of a file whose last byte is no newline
line_count(content) ==
    Cardinality({i \in 1..Len(content) : content[i] = NL})
        + (IF Len(content) > 0 /\ content[Len(content)] # NL THEN 1 ELSE 0)

\* floor division of Python 2 ints, b # 0
PyFloorDiv(a, b) == IF b > 0 THEN a \div b ELSE (0 - a) \div (0 - b)

\* the split size the mathematical ceiling would give
lines_ceiling(n, chunks) == PyFloorDiv(n + chunks - 1, chunks)

\* lines = int((line_count + self.chunks) / self.chunks)
lines_per_chunk(n, chunks) == PyFloorDiv(n + chunks, chunks)

\* split -l: the k-th line of the input ends at the k-th newline, the last
\* one at the end of the input
LineEnds(s) ==
    {i \in 1..Len(s) : s[i] = NL} \cup (IF Len(s) > 0 /\ s[Len(s)] # NL THEN {Len(s)} ELSE {})
LineEnd(s, k) ==
    IF k = 0 THEN 0 ELSE CHOOSE e \in LineEnds(s) : Cardinality({x \in LineEnds(s) : x <= e}) = k
Line(s, k) == SubSeq(s, LineEnd(s, k - 1) + 1, LineEnd(s, k))

\* split's output file names: the prefix and aa, ab, ..., zz
Letters ==
    <<"a", "b", "c", "d", "e", "f", "g", "h", "i", "j", "k", "l", "m",
      "n", "o", "p", "q", "r", "s", "t", "u", "v", "w", "x", "y", "z">>
Suffix(j) == <<Letters[(j \div 26) + 1], Letters[(j % 26) + 1]>>

\* gluish.utils.random_string(): the prefixes it may return
Prefixes == {<<"p", "a">>, <<"p", "c">>}
StalePrefix == <<"p", "b">>

\* gluish.utils.shellout raises when the command exits with a status # 0;
\* split refuses a line count below 1
split_exit(lines) == IF lines >= 1 THEN 0 ELSE 1
shellout_raises(status) == status # 0

\* gluish.path.iterfiles(directory): the files below the directory
iterfiles(directory) == {p \in DOMAIN fs : startswith(p, directory \o <<"/">>)}

\* TSV write_tsv(path): one line
write_tsv(p) == p \o <<NL>>

\* every path passes
keep_all(p, prefix) == TRUE

\* os.path.basename(path).startswith(prefix)
keep(p, prefix) == startswith(basename(p), prefix)

RECURSIVE Concat(_)
Concat(xs) == IF Len(xs) = 0 THEN <<>> ELSE xs[1] \o Concat(Tail(xs))

RECURSIVE Filter(_, _)
Filter(xs, prefix) ==
    IF Len(xs) = 0 THEN <<>>
    ELSE (IF keep(xs[1], prefix) THEN <<xs[1]>> ELSE <<>>) \o Filter(Tail(xs), prefix)

RECURSIVE Descending(_)
Descending(S) ==
    IF S = {} THEN <<>>
    ELSE LET m == CHOOSE x \in S : \A y \in S \ {x} : StrLess(y, x)
         IN  <<m>> \o Descending(S \ {m})

\* the input file of the small runs, and the test's fixture of 100 lines
InputFile == <<"/", "d", "/", "f">>
FixtureFile == <<"/", "f", "x", "/", "l", "-", "1", "0", "0", ".", "t", "x", "t">>
FixtureLines == 100
FixtureChunks == 10
FixtureContent == Concat([i \in 1..FixtureLines |-> str_int(i) \o <<NL>>])

Contents == UNION {[1..n -> {"x", NL}] : n \in 0..MaxLen}

SmallTasks == [filename : {InputFile}, chunks : (0 - 1)..MaxChunks]
FixtureTask == [filename |-> FixtureFile, chunks |-> FixtureChunks]
SplitTasks == SmallTasks \cup {FixtureTask}

\* CommonTask: BASE = tempfile.gettempdir(), TAG = common
SplitFileInstance(t) ==
    Instance(<<"S", "p", "l", "i", "t", "F", "i", "l", "e">>, TmpDir, <<"c", "o", "m", "m", "o", "n">>,
             <<<<<<"c", "h", "u", "n", "k", "s">>, PyInt(t.chunks)>>,
               <<<<"f", "i", "l", "e", "n", "a", "m", "e">>, Str(t.filename)>>>>, "absent")

\* SplitFile.output(): the path of the manifest
SplitFile_output(t) == path(SplitFileInstance(t), None, <<"t", "s", "v">>, TRUE, None)

\* SplitFile.output() of every task drawn, computed once
RECURSIVE OutputTable(_)
OutputTable(T) ==
    IF T = {} THEN <<>>
    ELSE LET t == CHOOSE x \in T : TRUE
         IN  (t :> SplitFile_output(t)) @@ OutputTable(T \ {t})
OutputOf == OutputTable(SplitTasks)

\* a complete() that is always false, as Indices.complete is
never_complete(t) == FALSE

\* SplitFile.complete(), inherited: the output exists
SplitFile_complete(t) == OutputOf[t] \in DOMAIN fs

Locals ==
    [line_count |-> 0, lines |-> 0, taskdir |-> <<>>, prefix |-> <<>>, pos |-> 0,
     tmp |-> <<>>, written |-> <<>>]

Running == {"count", "lines", "exists", "makedirs", "prefix", "split", "open", "write", "close"}

SplitDir == dirname(OutputOf[FixtureTask])
StaleChunk == SplitDir \o <<"/">> \o StalePrefix \o Suffix(0)

InitSmall ==
    /\ \E content \in Contents \cup {None}, stale \in BOOLEAN :
          /\ fs = (IF content = None THEN <<>> ELSE (InputFile :> content))
                    @@ (IF stale THEN (StaleChunk :> <<"o", NL>>) ELSE <<>>)
          /\ dirs = IF stale THEN Ancestors(SplitDir) ELSE {}
    \* the workers are interchangeable: their tasks are drawn up to order
    /\ task \in {t \in [Workers -> SmallTasks] : t[1].chunks <= t[2].chunks}
    /\ pc = [w \in Workers |-> "planned"]

\* the test: one task, built by one worker
InitFixture ==
    /\ fs = (FixtureFile :> FixtureContent)
    /\ dirs = {}
    /\ task = [w \in Workers |-> FixtureTask]
    /\ pc = [w \in Workers |-> IF w = 1 THEN "planned" ELSE "idle"]

InitSplit ==
    /\ InitSmall \/ InitFixture
    /\ loc = [w \in Workers |-> Locals]
    /\ made = [w \in Workers |-> {}]
    /\ attempts = [w \in Workers |-> 0]
    /\ PathIdle /\ ExecIdle

Goto(w, label) == pc' = [pc EXCEPT ![w] = label]

\* the scheduler asks complete() and runs the task only if it is false
Schedule(w) ==
    /\ pc[w] = "planned"
    /\ attempts' = [attempts EXCEPT ![w] = @ + 1]
    /\ Goto(w, IF SplitFile_complete(task[w]) THEN "satisfied" ELSE "count")
    /\ UNCHANGED <<fs, dirs, task, loc, made, pathVars, execVars>>

\* a later scheduling attempt for the same task
Replan(w) ==
    /\ pc[w] \in {"satisfied", "done"}
    /\ attempts[w] < MaxAttempts
    /\ Goto(w, "planned")
    /\ UNCHANGED <<fs, dirs, task, loc, made, attempts, pathVars, execVars>>

\* line_count = sum(1 for line in open(self.filename))
RunCount(w) ==
    /\ pc[w] = "count"
    /\ IF task[w].filename \in DOMAIN fs
       THEN /\ loc' = [loc EXCEPT ![w].line_count = line_count(fs[task[w].filename])]
            /\ Goto(w, "lines")
       ELSE /\ Goto(w, "failed")
            /\ UNCHANGED loc
    /\ UNCHANGED <<fs, dirs, task, made, attempts, pathVars, execVars>>

\* lines = int((line_count + self.chunks) / self.chunks)
RunLines(w) ==
    /\ pc[w] = "lines"
    /\ IF task[w].chunks = 0
       THEN /\ Goto(w, "failed")
            /\ UNCHANGED loc
       ELSE /\ loc' = [loc EXCEPT ![w].lines = lines_per_chunk(loc[w].line_count, task[w].chunks)]
            /\ Goto(w, "exists")
    /\ UNCHANGED <<fs, dirs, task, made, attempts, pathVars, execVars>>

\* taskdir = os.path.dirname(self.output().fn); if not os.path.exists(taskdir)
RunExists(w) ==
    /\ pc[w] = "exists"
    /\ loc' = [loc EXCEPT ![w].taskdir = dirname(OutputOf[task[w]])]
    /\ Goto(w, IF dirname(OutputOf[task[w]]) \in dirs THEN "prefix" ELSE "makedirs")
    /\ UNCHANGED <<fs, dirs, task, made, attempts, pathVars, execVars>>

\* os.makedirs(taskdir): OSError when another worker made it meanwhile
RunMakedirs(w) ==
    /\ pc[w] = "makedirs"
    /\ IF loc[w].taskdir \in dirs
       THEN /\ Goto(w, "failed")
            /\ UNCHANGED dirs
       ELSE /\ dirs' = dirs \cup Ancestors(loc[w].taskdir)
            /\ Goto(w, "prefix")
    /\ UNCHANGED <<fs, task, loc, made, attempts, pathVars, execVars>>

\* prefix = random_string(): a prefix no file and no other run has
RunPrefix(w) ==
    /\ pc[w] = "prefix"
    /\ \E p \in Prefixes :
          /\ \A v \in Workers : loc[v].prefix # p
          /\ loc' = [loc EXCEPT ![w].prefix = p]
    /\ Goto(w, "split")
    /\ UNCHANGED <<fs, dirs, task, made, attempts, pathVars, execVars>>

\* shellout(cd taskdir && split -l lines input prefix): split writes the
\* input line by line into taskdir/prefix + aa, ab, ...
RunSplit(w) ==
    /\ pc[w] = "split"
    /\ IF shellout_raises(split_exit(loc[w].lines))
       THEN /\ Goto(w, "failed")
            /\ UNCHANGED <<fs, loc, made>>
       ELSE LET input == fs[task[w].filename]
                k == loc[w].pos
                chunk == loc[w].taskdir \o <<"/">> \o loc[w].prefix \o Suffix(k \div loc[w].lines)
            IN  IF k < Cardinality(LineEnds(input))
                THEN /\ fs' = (chunk :> ((IF k % loc[w].lines = 0 THEN <<>> ELSE fs[chunk])
                                          \o Line(input, k + 1))) @@ fs
                     /\ made' = [made EXCEPT ![w] = @ \cup {chunk}]
                     /\ loc' = [loc EXCEPT ![w].pos = k + 1]
                     /\ UNCHANGED pc
                ELSE /\ Goto(w, "open")
                     /\ UNCHANGED <<fs, loc, made>>
    /\ UNCHANGED <<dirs, task, attempts, pathVars, execVars>>

\* a file opened for writing at the output path itself
RunOpenInPlace(w) ==
    /\ pc[w] = "open"
    /\ loc' = [loc EXCEPT ![w].tmp = OutputOf[task[w]]]
    /\ fs' = (OutputOf[task[w]] :> <<>>) @@ fs
    /\ Goto(w, "write")
    /\ UNCHANGED <<dirs, task, made, attempts, pathVars, execVars>>

\* self.output().open(w): luigi opens a temporary file beside the output
RunOpen(w) ==
    /\ pc[w] = "open"
    /\ LET tmp == OutputOf[task[w]] \o <<"-", "l", "u", "i", "g", "i", "-", "t", "m", "p", "-">> \o str_int(w)
       IN  /\ loc' = [loc EXCEPT ![w].tmp = tmp]
           /\ fs' = (tmp :> <<>>) @@ fs
    /\ Goto(w, "write")
    /\ UNCHANGED <<dirs, task, made, attempts, pathVars, execVars>>

\* for path in sorted(iterfiles(taskdir)): write the paths that start with
\* the prefix; iterfiles yields in directory order, here either way round
RunWrite(w) ==
    /\ pc[w] = "write"
    /\ \E listing \in {Ascending(iterfiles(loc[w].taskdir)), Descending(iterfiles(loc[w].taskdir))} :
          LET paths == Filter(sorted(listing), loc[w].prefix)
              text == Concat([i \in 1..Len(paths) |-> write_tsv(paths[i])])
          IN  /\ fs' = (loc[w].tmp :> text) @@ fs
              /\ loc' = [loc EXCEPT ![w].written = text]
    /\ Goto(w, "close")
    /\ UNCHANGED <<dirs, task, made, attempts, pathVars, execVars>>

\* leaving the with block: the temporary file is renamed to the output path
RunClose(w) ==
    /\ pc[w] = "close"
    /\ LET out == OutputOf[task[w]]
       IN  fs' = [p \in (DOMAIN fs \ {loc[w].tmp}) \cup {out} |->
                     IF p = out THEN fs[loc[w].tmp] ELSE fs[p]]
    /\ Goto(w, "done")
    /\ UNCHANGED <<dirs, task, loc, made, attempts, pathVars, execVars>>

\* the worker's process is terminated inside run()
Kill(w) ==
    /\ pc[w] \in Running
    /\ Goto(w, "killed")
    /\ UNCHANGED <<fs, dirs, task, loc, made, attempts, pathVars, execVars>>

NextSplit ==
    \E w \in Workers :
        \/ Schedule(w)
        \/ Replan(w)
        \/ RunCount(w)
        \/ RunLines(w)
        \/ RunExists(w)
        \/ RunMakedirs(w)
        \/ RunPrefix(w)
        \/ RunSplit(w)
        \/ RunOpen(w)
        \/ RunWrite(w)
        \/ RunClose(w)
        \/ Kill(w)

SpecSplit == InitSplit /\ [][NextSplit]_vars

(***************************************************************************)
(* What the path() calls are checked against: the name built from the     *)
(* parameter mapping as a set of (key, value) pairs                        *)
(***************************************************************************)
\* the parameter mapping of a task: a set of <<key, value string>>
ParamMap(t) == {<<t.kwargs[i][1], format(t.kwargs[i][2])>> : i \in 1..Len(t.kwargs)}

\* the keys of cbmap that are parameters of t
RuleKeys(t, cbmap) ==
    IF cbmap = None THEN {}
    ELSE {cbmap[i][1] : i \in 1..Len(cbmap)} \cap {t.kwargs[i][1] : i \in 1..Len(t.kwargs)}

\* the mapping after normalization: a parameter with a rule takes the rule's value
Normalized(t, cbmap) ==
    {<<t.kwargs[i][1],
       IF t.kwargs[i][1] \in RuleKeys(t, cbmap) THEN format(nearest(t).val)
       ELSE format(t.kwargs[i][2])>> : i \in 1..Len(t.kwargs)}

RECURSIVE Dashed(_)
Dashed(xs) == IF Len(xs) = 1 THEN xs[1] ELSE xs[1] \o <<"-">> \o Dashed(Tail(xs))

ExpectedName(M) ==
    IF M = {} THEN <<"o", "u", "t", "p", "u", "t">>
    ELSE Dashed(Ascending({p[1] \o <<"-">> \o p[2] : p \in M}))

TaskDir(t) == t.BASE \o <<"/">> \o t.TAG \o <<"/">> \o t.family \o <<"/">>

ExpectedPath(t, M) ==
    TaskDir(t) \o (IF args.digest THEN sha1_hexdigest(ExpectedName(M)) ELSE ExpectedName(M))
        \o <<".">> \o args.ext

Configured(t) == t.BASE # NotImplemented /\ t.TAG # NotImplemented
Called(i) == ret[i] # NotCalled

\* the SHA-1 of the six bytes of output, as hashlib prints it
Sha1OfOutput ==
    <<"1", "0", "2", "9", "d", "6", "7", "6", "4", "4", "8", "1", "5", "d", "4", "2", "8", "f", "5", "5",
      "4", "e", "3", "9", "0", "a", "a", "9", "6", "6", "d", "5", "7", "a", "0", "b", "2", "9", "b", "8">>

\* C4: with BASE and TAG set and no explicit filename, path(ext, digest) is
\* BASE/TAG/family/name.ext, where name is output for no parameters and
\* otherwise the key-value strings of all parameters, ascending, joined by
\* a dash; with digest the name is replaced by its SHA-1 as 40 lowercase
\* hex characters; two instances with the same (key, value) pairs in any
\* iteration order get the same path.
C4_PathConstruction ==
    /\ \A i \in 1..2 :
          (Called(i) /\ Configured(inst[i]) /\ args.filename = None /\ args.cbmap = None) =>
              /\ ret[i] = ExpectedPath(inst[i], ParamMap(inst[i]))
              /\ args.digest =>
                    /\ Len(ret[i]) = Len(TaskDir(inst[i])) + 40 + 1 + Len(args.ext)
                    /\ \A j \in 1..40 :
                          \E h \in 1..16 : ret[i][Len(TaskDir(inst[i])) + j] = HexDigits[h]
              /\ (inst[i].kwargs = <<>> /\ args.digest) =>
                    ret[i] = TaskDir(inst[i]) \o Sha1OfOutput \o <<".">> \o args.ext
    /\ (Called(1) /\ Called(2) /\ ParamMap(inst[1]) = ParamMap(inst[2])) => ret[1] = ret[2]

\* C4 witness: two instances holding the same parameters in different
\* iteration orders were both given the same digest path.
C4_Witness ==
    /\ Called(1) /\ Called(2)
    /\ inst[1].kwargs # inst[2].kwargs
    /\ ParamMap(inst[1]) = ParamMap(inst[2])
    /\ args.filename = None /\ args.cbmap = None /\ args.digest
    /\ ~IsError(ret[1])
    /\ ret[1] = ret[2]

SameButDate(t, u) ==
    /\ t.family = u.family
    /\ HasKey(t.kwargs, K_date) /\ HasKey(u.kwargs, K_date)
    /\ {p \in ParamMap(t) : p[1] # K_date} = {p \in ParamMap(u) : p[1] # K_date}

\* C5: two instances of one type that differ in the date parameter only,
\* under a cbmap rule for date whose callback returns the same value for
\* both, get the identical path; a cbmap key that is no parameter of the
\* task raises nothing and adds nothing to the name.
C5_NormalizationCollapse ==
    /\ (/\ Called(1) /\ Called(2)
        /\ args.filename = None /\ args.cbmap # None
        /\ SameButDate(inst[1], inst[2])
        /\ K_date \in RuleKeys(inst[1], args.cbmap)
        /\ nearest(inst[1]).ok /\ nearest(inst[2]).ok
        /\ nearest(inst[1]).val = nearest(inst[2]).val)
       => (ret[1] = ret[2] /\ ~IsError(ret[1]))
    /\ \A i \in 1..2 :
          (Called(i) /\ Configured(inst[i]) /\ args.filename = None /\ args.cbmap # None) =>
              IF RuleKeys(inst[i], args.cbmap) = {}
              THEN ret[i] = ExpectedPath(inst[i], ParamMap(inst[i]))
              ELSE IF ~nearest(inst[i]).ok THEN ret[i] = AttributeError_Missing
              ELSE ret[i] = ExpectedPath(inst[i], Normalized(inst[i], args.cbmap))

\* C5 witness: two dates of one month, a rule for date and a rule for a key
\* that is no parameter, mapped to one path.
C5_Witness ==
    /\ Called(1) /\ Called(2)
    /\ SameButDate(inst[1], inst[2])
    /\ GetItem(inst[1].kwargs, K_date) = Date(2020, 1, 5)
    /\ GetItem(inst[2].kwargs, K_date) = Date(2020, 1, 20)
    /\ inst[1].nearest = "method"
    /\ args.filename = None /\ args.cbmap # None
    /\ HasKey(args.cbmap, K_date) /\ HasKey(args.cbmap, K_other)
    /\ ~IsError(ret[1])
    /\ ret[1] = ret[2]

\* C3: two tasks of one type whose parameter mappings differ get different
\* non-digest filenames.
C3_UniqueNames ==
    (Called(1) /\ Called(2) /\ ~args.digest /\ args.filename = None
        /\ inst[1].family = inst[2].family
        /\ ParamMap(inst[1]) # ParamMap(inst[2]))
    => ret[1] # ret[2]

(***************************************************************************)
(* What the Executable calls are checked against                           *)
(***************************************************************************)
\* sub occurs in s
Contains(s, sub) == \E i \in 0..(Len(s) - Len(sub)) : SubSeq(s, i + 1, i + Len(sub)) = sub

OnSearchPath(name) == \E i \in DOMAIN PATH : name \in PATH[i]

\* C8: complete() returns true exactly when the name is found on the search
\* path; run() ends in a RuntimeError whose message contains the name,
\* whether or not the name is on the path and at every call; no call changes
\* the search path or the task.
C8_PresenceCheck ==
    /\ [](/\ outcome.op = "complete" => (outcome.val <=> OnSearchPath(exe.name))
          /\ outcome.op = "run" =>
                /\ outcome.val.type = "RuntimeError"
                /\ Contains(outcome.val.msg, exe.name))
    /\ [][PATH' = PATH /\ exe' = exe /\ fs' = fs /\ dirs' = dirs]_vars

\* run() raised at the last of several calls although the binary is on the
\* second directory of the search path
C8_Witness ==
    /\ calls >= 2
    /\ outcome.op = "run"
    /\ exe.name \in PATH[2] /\ exe.name \notin PATH[1]
    /\ Len(exe.message) > 0

(***************************************************************************)
(* What the SplitFile runs are checked against                             *)
(***************************************************************************)
\* the paths a manifest lists, one per line
ManifestPaths(text) ==
    [k \in 1..Cardinality(LineEnds(text)) |->
        LET l == Line(text, k) IN IF l[Len(l)] = NL THEN SubSeq(l, 1, Len(l) - 1) ELSE l]

\* every line of the manifest is ended
WholeLines(text) == Len(text) = 0 \/ text[Len(text)] = NL

Range(f) == {f[x] : x \in DOMAIN f}

\* the listed files read one after the other
ReadBack(listed) == Concat([k \in DOMAIN listed |-> fs[listed[k]]])

NumLines(s) == Cardinality(LineEnds(s))

CeilDiv(a, b) == (a + b - 1) \div b

\* C1: after a run with chunks >= 1 has succeeded, the manifest at the
\* output path lists existing files whose contents, read in the order
\* listed, are the content of the input file.
C1_RoundTrip ==
    \A w \in Workers :
        (pc[w] = "done" /\ task[w].chunks >= 1)
        => LET listed == ManifestPaths(fs[OutputOf[task[w]]])
           IN  /\ Range(listed) \subseteq DOMAIN fs
               /\ ReadBack(listed) = fs[task[w].filename]

\* a run over an input without trailing newline that produced two chunks
C1_Witness ==
    \E w \in Workers :
        /\ pc[w] = "done" /\ task[w].chunks >= 1
        /\ Len(ManifestPaths(fs[OutputOf[task[w]]])) >= 2
        /\ LET input == fs[task[w].filename] IN input[Len(input)] # NL

\* C2: once the manifest exists at the output path it stays there, a
\* scheduling attempt for the task finds complete() true, does not enter
\* run() and leaves files and directories as they are.
C2_Idempotence ==
    [][\A w \in Workers :
          OutputOf[task[w]] \in DOMAIN fs
          => /\ OutputOf[task[w]] \in DOMAIN fs'
             /\ pc[w] = "planned" /\ pc'[w] # "planned"
                => pc'[w] = "satisfied" /\ fs' = fs /\ dirs' = dirs /\ made' = made]_vars

\* a worker that ran the task itself was scheduled again and found it done
C2_Witness ==
    \E w \in Workers :
        /\ pc[w] = "satisfied" /\ attempts[w] >= 2
        /\ made[w] # {}
        /\ OutputOf[task[w]] \in DOMAIN fs

\* C6: a run with chunks <= 0 never succeeds, creates no chunk file and
\* leaves no manifest at the output path.
C6_InvalidChunks ==
    \A w \in Workers :
        task[w].chunks <= 0
        => /\ pc[w] # "done"
           /\ made[w] = {}
           /\ OutputOf[task[w]] \notin DOMAIN fs

\* C7: with chunks >= 1 the split size is floor((line_count + chunks) /
\* chunks); the manifest a run wrote lists ceil(line_count / split size)
\* paths, at most chunks, and every listed file but the last holds split
\* size lines; the fixture of 100 lines in 10 chunks gives 11 and 10 files,
\* the last of 1 line.
C7_ChunkLaw ==
    \A w \in Workers :
        task[w].chunks >= 1
        => LET n == NumLines(fs[task[w].filename])
               L == (n + task[w].chunks) \div task[w].chunks
               listed == ManifestPaths(loc[w].written)
           IN  /\ pc[w] \in {"exists", "makedirs", "prefix", "split", "open", "write", "close", "done"}
                    => loc[w].lines = L
               /\ pc[w] = "done"
                    => /\ Len(listed) = CeilDiv(n, L)
                       /\ Len(listed) <= task[w].chunks
                       /\ \A k \in 1..(Len(listed) - 1) : NumLines(fs[listed[k]]) = L
                       /\ task[w] = FixtureTask
                            => /\ L = 11 /\ Len(listed) = 10
                               /\ NumLines(fs[listed[10]]) = 1

\* the fixture was split into its 10 files
C7_Witness ==
    /\ pc[1] = "done" /\ task[1] = FixtureTask
    /\ Len(ManifestPaths(loc[1].written)) = FixtureChunks
    /\ loc[1].line_count = FixtureLines

\* C9: whenever a manifest is at an output path, all its lines are whole,
\* the files it lists exist and read back as the input, and no later step
\* changes a listed file; a manifest appears at the output path only by the
\* last step of a run whose chunk files are all there.
C9_NoHalfWritten ==
    /\ [](\A w \in Workers :
            OutputOf[task[w]] \in DOMAIN fs
            => LET text == fs[OutputOf[task[w]]]
               IN  /\ WholeLines(text)
                   /\ Range(ManifestPaths(text)) \subseteq DOMAIN fs
                   /\ ReadBack(ManifestPaths(text)) = fs[task[w].filename])
    /\ [][\A w \in Workers :
            /\ OutputOf[task[w]] \in DOMAIN fs
                 => \A q \in Range(ManifestPaths(fs[OutputOf[task[w]]])) :
                        q \in DOMAIN fs' /\ fs'[q] = fs[q]
            /\ (OutputOf[task[w]] \notin DOMAIN fs /\ OutputOf[task[w]] \in DOMAIN fs')
                 => \E v \in Workers :
                        /\ pc[v] = "close" /\ pc'[v] = "done" /\ task[v] = task[w]
                        /\ made[v] \subseteq DOMAIN fs]_vars

\* complete() was true for a worker while another worker was inside run()
\* for the same task, chunk files written and its manifest not yet renamed
C9_Witness ==
    \E w, v \in Workers :
        /\ w # v /\ task[w] = task[v]
        /\ pc[w] = "satisfied"
        /\ pc[v] \in {"split", "open", "write", "close"}
        /\ made[v] # {}
        /\ Len(fs[task[w].filename]) > 0

\* C10: the manifest a run wrote lists the chunk files this run created, in
\* ascending order, and neither a file of the other run nor one that was in
\* the directory before.
C10_PrefixIsolation ==
    \A w \in Workers :
        pc[w] \in {"close", "done"}
        => LET listed == ManifestPaths(loc[w].written)
           IN  /\ listed = Ascending(made[w])
               /\ \A v \in Workers \ {w} : Range(listed) \cap made[v] = {}
               /\ StaleChunk \notin Range(listed)

\* a run wrote a manifest of two files while the files of the other run and
\* an older file were in the same directory
C10_Witness ==
    \E w, v \in Workers :
        /\ w # v
        /\ pc[w] = "close" /\ Cardinality(made[w]) >= 2
        /\ pc[v] \in {"split", "open"} /\ made[v] # {}
        /\ loc[w].taskdir = loc[v].taskdir
        /\ StaleChunk \in DOMAIN fs

====
